---- MODULE Spec2Model ----
(***************************************************************************)
(* A model of safina-lite's query orchestration and tool-dispatch          *)
(* pipeline: the LLM provider manager, the processor registry, the session *)
(* context manager, the orchestrator and the digital-lending eligibility   *)
(* check.  Python values are modelled by strings and records; a Python     *)
(* None is the string "None".                                              *)
(***************************************************************************)
EXTENDS Integers, Sequences, FiniteSets, TLC

VARIABLES
    providers,              \* LLMManager.providers: the registered names
    default_provider_name,  \* LLMManager.default_provider_name
    fallback_order,         \* LLMManager.fallback_order
    avail,                  \* what each provider's check_connection reports now
    order_call,             \* the last set_fallback_order call: its argument, and the
                            \* names registered when it was made
    selection,              \* the last _select_llm_provider call: its input and result
    selected,               \* the _select_llm_provider calls of a run of selections
    tool_selection,         \* the last GeminiLLM.generate_with_tools call: inputs, result
    max_history,            \* ContextManager.max_history
    sessions,               \* ContextManager.sessions: session id -> list of interactions
    clock,                  \* datetime.now(), as a logical clock
    appended,               \* history variable: every interaction appended, per session
    last_context,           \* what the last get_context call returned
    warehouse,              \* DataManager cache: ACCOUNT_NUMBER of the warehouse rows
    reasons,                \* DataManager cache: the rows of the reasons table
    elig,                   \* the last _check_eligibility call: arguments and outcome
    customer_record,        \* the customer record the engine is given
    evaluated,              \* what each evaluation of the record returned, in order
    processors,             \* ProcessorRegistry.processors, in insertion order
    tools_map,              \* ProcessorRegistry.tools_map: tool name -> processor
    registrations,          \* the processors register_processor was given, in call order
    all_tools,              \* what the last get_all_tools call returned, and when
    pass                    \* the process_query calls: their position and locals

pmVars == <<providers, default_provider_name, fallback_order, avail, order_call>>
gemVars == <<tool_selection, selected>>
selVars == <<pmVars, selection, gemVars>>
ctxVars == <<max_history, sessions, clock, appended, last_context>>
dataVars == <<warehouse, reasons>>
engVars == <<customer_record, evaluated>>
eligVars == <<dataVars, elig, engVars>>
regVars == <<processors, tools_map, registrations, all_tools>>
vars == <<selVars, ctxVars, eligVars, regVars, pass>>

\* What the operations of one component leave alone.
notSel == <<gemVars, ctxVars, eligVars, regVars, pass>>
notCtx == <<selVars, eligVars, regVars, pass>>
notElig == <<selVars, ctxVars, regVars, pass>>
notReg == <<selVars, ctxVars, eligVars, pass>>

None == "None"
Raised == "Raised"

\* Bounds of the model.
MaxFallback == 2
MaxHistoryBound == 2
MaxClock == 4
MaxSeeds == 2
MaxEvaluations == 2
MaxRegistrations == 4
MaxToolSelections == 2
MaxSelections == 2

SessionIds == {"s1", "s2"}

NoSelection == [preference |-> None, result |-> "NotCalled"]

ProviderNames == {"A", "B", "C"}

\* check_connection answers {'available': True}, {'available': False}, or raises.
Reports == {"up", "down"}

RECURSIVE SeqsUpTo(_, _)
SeqsUpTo(S, n) ==
    IF n = 0 THEN {<<>>}
    ELSE LET shorter == SeqsUpTo(S, n - 1)
         IN  shorter \cup {Append(q, x) : q \in {r \in shorter : Len(r) = n - 1}, x \in S}

(***************************************************************************)
(* Response (models/response.py).  The confidence is in hundredths; the     *)
(* data of a response without data is the empty mapping.                   *)
(***************************************************************************)

NoData == <<>>

Response(message, intent, confidence, status, data) ==
    [message |-> message, intent |-> intent, confidence |-> confidence,
     status |-> status, data |-> data]

Statuses == {"success", "error", "missing_data", "not_found"}

(***************************************************************************)
(* Python values: str.strip(), dict.get(), truthiness                      *)
(***************************************************************************)

RECURSIVE LStrip(_)
LStrip(s) ==
    IF Len(s) > 0 /\ SubSeq(s, 1, 1) = " " THEN LStrip(SubSeq(s, 2, Len(s))) ELSE s

RECURSIVE RStrip(_)
RStrip(s) ==
    IF Len(s) > 0 /\ SubSeq(s, Len(s), Len(s)) = " "
    THEN RStrip(SubSeq(s, 1, Len(s) - 1)) ELSE s

Strip(s) == RStrip(LStrip(s))

\* arguments.get(key, default) on a dict, a function from its keys.
DictGet(d, key, default) == IF key \in DOMAIN d THEN d[key] ELSE default

\* A value that has .get: a dict.  A text, a list or a null in the place of a
\* dict is a record with the one field not_a_mapping.
IsMapping(value) == "not_a_mapping" \notin DOMAIN value

\* `not value` for None and for a str.
Falsy(value) == value = None \/ value = ""

StartsWith(s, prefix) == Len(prefix) <= Len(s) /\ SubSeq(s, 1, Len(prefix)) = prefix

\* The elements of a list.
Range(q) == {q[i] : i \in 1..Len(q)}

\* str(value): the text of None is 'None'.
Str(value) == IF value = None THEN "None" ELSE value

Uppers == "ABCDEFGHIJKLMNOPQRSTUVWXYZ"
Lowers == "abcdefghijklmnopqrstuvwxyz"

CharAt(s, i) == SubSeq(s, i, i)

\* The place of a character in an alphabet, 0 when it is not in it.
Position(c, alphabet) ==
    IF \E i \in 1..Len(alphabet) : CharAt(alphabet, i) = c
    THEN CHOOSE i \in 1..Len(alphabet) : CharAt(alphabet, i) = c
    ELSE 0

IsLetter(c) == Position(c, Uppers) > 0 \/ Position(c, Lowers) > 0

LowerChar(c) == IF Position(c, Uppers) > 0 THEN CharAt(Lowers, Position(c, Uppers)) ELSE c
UpperChar(c) == IF Position(c, Lowers) > 0 THEN CharAt(Uppers, Position(c, Lowers)) ELSE c

\* str.lower()
RECURSIVE Lower(_)
Lower(s) ==
    IF Len(s) = 0 THEN s ELSE LowerChar(CharAt(s, 1)) \o Lower(SubSeq(s, 2, Len(s)))

\* str.upper()
RECURSIVE Upper(_)
Upper(s) ==
    IF Len(s) = 0 THEN s ELSE UpperChar(CharAt(s, 1)) \o Upper(SubSeq(s, 2, Len(s)))

\* `sub in s`
Contains(s, sub) ==
    \E i \in 1..(Len(s) - Len(sub) + 1) : SubSeq(s, i, i + Len(sub) - 1) = sub

\* str.replace(old, new) for one-character strings.
RECURSIVE Replace(_, _, _)
Replace(s, old, new) ==
    IF Len(s) = 0 THEN s
    ELSE (IF CharAt(s, 1) = old THEN new ELSE CharAt(s, 1))
         \o Replace(SubSeq(s, 2, Len(s)), old, new)

\* str.title(): a letter that follows a letter is lowered, any other letter is
\* raised.
RECURSIVE TitleFrom(_, _)
TitleFrom(s, in_word) ==
    IF Len(s) = 0 THEN s
    ELSE (IF in_word THEN LowerChar(CharAt(s, 1)) ELSE UpperChar(CharAt(s, 1)))
         \o TitleFrom(SubSeq(s, 2, Len(s)), IsLetter(CharAt(s, 1)))

Title(s) == TitleFrom(s, FALSE)

\* str.split(sep) for a one-character separator: '' splits into [''].
RECURSIVE Split(_, _)
Split(s, sep) ==
    IF ~Contains(s, sep) THEN <<s>>
    ELSE LET i == CHOOSE k \in 1..Len(s) :
                      CharAt(s, k) = sep /\ \A j \in 1..(k - 1) : CharAt(s, j) # sep
         IN  <<SubSeq(s, 1, i - 1)>> \o Split(SubSeq(s, i + 1, Len(s)), sep)

(***************************************************************************)
(* DataManager (processors/digital_lending/data_manager.py)                *)
(***************************************************************************)

NotFound == [found |-> FALSE]

\* is_in_warehouse: an identifier shorter than 10 characters is a customer
\* number, matched as a prefix (LIKE 'id%'); a longer one is matched exactly;
\* fetchone() takes the first matching row.
IsInWarehouse(identifier) ==
    LET normalized_id == Strip(identifier)
        is_customer_number == Len(normalized_id) < 10
        rows == SelectSeq(warehouse, LAMBDA acc :
                    IF is_customer_number THEN StartsWith(acc, normalized_id)
                    ELSE acc = normalized_id)
    IN  IF rows # <<>> THEN [found |-> TRUE, account |-> rows[1]] ELSE NotFound

\* get_customer_data: CUSTOMERNO = id OR ACCOUNT_NUMBER LIKE 'id%' for a customer
\* number, ACCOUNT_NUMBER = id otherwise; the first matching row.
GetCustomerData(identifier) ==
    LET normalized_id == Strip(identifier)
        is_customer_number == Len(normalized_id) < 10
        rows == SelectSeq(reasons, LAMBDA r :
                    IF is_customer_number
                    THEN r.CUSTOMERNO = normalized_id
                         \/ StartsWith(r.ACCOUNT_NUMBER, normalized_id)
                    ELSE r.ACCOUNT_NUMBER = normalized_id)
    IN  IF rows # <<>> THEN [found |-> TRUE, row |-> rows[1]] ELSE NotFound

(***************************************************************************)
(* The eligibility engine of DigitalLendingProcessor: _analyze_failed_     *)
(* checks and _generate_action_items.  A customer record is a function     *)
(* from its columns; a cell the CSV left empty comes back from the cache   *)
(* as None.  The empty dict is <<>>.                                       *)
(***************************************************************************)

FailedCheck(check_type, description, explanation, supporting_data) ==
    [check_type |-> check_type, description |-> description,
     explanation |-> explanation, supporting_data |-> supporting_data]

\* str(customer_data.get(col, '')).strip()
Cell(customer_data, col) == Strip(Str(DictGet(customer_data, col, "")))

RecencyFailure ==
    FailedCheck("recency_check", "Inconsistent Credit Turnovers",
        "Customer has inconsistent credit turnovers with irregular transaction patterns",
        <<>>)

\* CHECK_COLUMNS, in the order of the dict.
CHECK_COLUMNS ==
    <<[col |-> "Joint_Check", description |-> "Joint Account Check"],
      [col |-> "DPD_Arrears_Check_DS", description |-> "DPD Arrears Check"],
      [col |-> "Elma_check", description |-> "Mobile Banking Setup"],
      [col |-> "KRAPIN_Check", description |-> "KRA PIN Check"],
      [col |-> "Classification_Check", description |-> "Risk Classification"],
      [col |-> "Mandates_Check", description |-> "Account Mandates"],
      [col |-> "Linked_Base_Check", description |-> "Linked Base Account"],
      [col |-> "customer_vintage_Check", description |-> "Banking Vintage"],
      [col |-> "Active_Inactive_Check", description |-> "Account Activity"],
      [col |-> "Scheme_Check_DS", description |-> "Scheme Check"],
      [col |-> "Staff_Check_DS", description |-> "Staff Account Check"],
      [col |-> "Risk_Class_Check_DS", description |-> "Risk Class Check"],
      [col |-> "Average_Bal_check", description |-> "Average Balance Check"]>>

\* _get_check_explanation
GetCheckExplanation(check_type, customer_data) ==
    CASE check_type = "DPD_Arrears_Check_DS" ->
            "Customer has DPD arrears. Clear all outstanding arrears and wait 60-day cooling period."
      [] check_type = "Classification_Check" ->
            "Customer classification is "
                \o Str(DictGet(customer_data, "RISK_CLASS", "Unknown"))
                \o ", below minimum threshold (A5 for digital, A7 for mobile). Liaise with RM to upgrade."
      [] check_type = "Joint_Check" ->
            "This is a joint account. Only individual accounts with sole signatories qualify."
      [] check_type = "Mandates_Check" ->
            "Account mandates must be SOLE SIGNATORY. Remove additional signatories."
      [] check_type = "customer_vintage_Check" ->
            "Customer has banked less than 6 months. Minimum 6 months required."
      [] check_type = "Elma_check" ->
            "Customer not enrolled in mobile banking. Register for NCBA SASA mobile banking."
      [] check_type = "Active_Inactive_Check" ->
            "Account classified as inactive. Reactivate through regular transactions for 30+ days."
      [] check_type = "Risk_Class_Check_DS" ->
            "Customer classified as high risk after assessment. Improve credit history."
      [] OTHER -> "Failed " \o Replace(check_type, "_", " ")

\* _get_supporting_data
GetSupportingData(check_type, customer_data) ==
    IF check_type = "DPD_Arrears_Check_DS"
    THEN [Arrears_Days |-> DictGet(customer_data, "Arrears_Days", "N/A"),
          Loan_Account |-> DictGet(customer_data, "Loan_Account", "N/A")]
    ELSE IF check_type = "Classification_Check"
    THEN [Current_Classification |-> DictGet(customer_data, "RISK_CLASS", "Unknown")]
    ELSE <<>>

\* The first statement of _analyze_failed_checks: the recency check.
RecencyFailures(customer_data) ==
    IF Upper(Cell(customer_data, "recency_check")) = "N" THEN <<RecencyFailure>> ELSE <<>>

\* A loop that compares the cell as it is with EXCLUDE.
RECURSIVE WithColumnFailures_Exact(_, _, _)
WithColumnFailures_Exact(failed_checks, customer_data, i) ==
    IF i > Len(CHECK_COLUMNS) THEN failed_checks
    ELSE LET col == CHECK_COLUMNS[i].col
         IN  WithColumnFailures_Exact(
                 IF DictGet(customer_data, col, "") = "EXCLUDE"
                 THEN Append(failed_checks,
                             FailedCheck(col, CHECK_COLUMNS[i].description,
                                         GetCheckExplanation(col, customer_data),
                                         GetSupportingData(col, customer_data)))
                 ELSE failed_checks,
                 customer_data, i + 1)

\* The loop over CHECK_COLUMNS from column i on.
RECURSIVE WithColumnFailures(_, _, _)
WithColumnFailures(failed_checks, customer_data, i) ==
    IF i > Len(CHECK_COLUMNS) THEN failed_checks
    ELSE LET col == CHECK_COLUMNS[i].col
         IN  WithColumnFailures(
                 IF Upper(Cell(customer_data, col)) = "EXCLUDE"
                 THEN Append(failed_checks,
                             FailedCheck(col, CHECK_COLUMNS[i].description,
                                         GetCheckExplanation(col, customer_data),
                                         GetSupportingData(col, customer_data)))
                 ELSE failed_checks,
                 customer_data, i + 1)

\* [r.strip() for r in text.split(',')]
StrippedTokens(text) ==
    LET parts == Split(text, ",") IN [i \in 1..Len(parts) |-> Strip(parts[i])]

CheckTypes(failed_checks) == {failed_checks[i].check_type : i \in 1..Len(failed_checks)}

\* A loop over the reasons that appends every token, collected or not.
RECURSIVE WithReasonFailures_NoDedup(_, _, _, _)
WithReasonFailures_NoDedup(failed_checks, reason_list, explanation_list, idx) ==
    IF idx > Len(reason_list) THEN failed_checks
    ELSE LET reason == reason_list[idx]
         IN  WithReasonFailures_NoDedup(
                 IF reason # ""
                 THEN Append(failed_checks,
                             FailedCheck(reason, Title(Replace(reason, "_", " ")),
                                         IF idx <= Len(explanation_list)
                                         THEN explanation_list[idx] ELSE reason,
                                         <<>>))
                 ELSE failed_checks,
                 reason_list, explanation_list, idx + 1)

\* The loop over reason_list from the idx-th reason on.
RECURSIVE WithReasonFailures(_, _, _, _)
WithReasonFailures(failed_checks, reason_list, explanation_list, idx) ==
    IF idx > Len(reason_list) THEN failed_checks
    ELSE LET reason == reason_list[idx]
         IN  WithReasonFailures(
                 IF reason # "" /\ reason \notin CheckTypes(failed_checks)
                 THEN Append(failed_checks,
                             FailedCheck(reason, Title(Replace(reason, "_", " ")),
                                         IF idx <= Len(explanation_list)
                                         THEN explanation_list[idx] ELSE reason,
                                         <<>>))
                 ELSE failed_checks,
                 reason_list, explanation_list, idx + 1)

\* An analysis that reads the reasons before the check columns.
AnalyzeFailedChecks_ReasonsFirst(customer_data) ==
    LET reasons_text == Cell(customer_data, "reasons")
        reason_list == StrippedTokens(reasons_text)
        from_reasons ==
            IF reasons_text # "" /\ reasons_text # "nan"
            THEN WithReasonFailures(RecencyFailures(customer_data), reason_list,
                                    reason_list, 1)
            ELSE RecencyFailures(customer_data)
    IN  WithColumnFailures(from_reasons, customer_data, 1)

\* _analyze_failed_checks
AnalyzeFailedChecks(customer_data) ==
    LET collected == WithColumnFailures(RecencyFailures(customer_data), customer_data, 1)
        reasons_text == Cell(customer_data, "reasons")
        reason_list == StrippedTokens(reasons_text)
        reasons_explanation == Cell(customer_data, "reasons_explanation")
        explanation_list ==
            IF reasons_explanation # "" /\ reasons_explanation # "nan"
            THEN StrippedTokens(reasons_explanation) ELSE reason_list
    IN  IF reasons_text # "" /\ reasons_text # "nan"
        THEN WithReasonFailures(collected, reason_list, explanation_list, 1)
        ELSE collected

\* The branch of the if/elif chain of _generate_action_items a check type takes,
\* None when it takes no branch.
ActionCategory(check_type) ==
    LET lowered == Lower(check_type)
    IN  IF Contains(lowered, "dpd") \/ Contains(lowered, "arrears") THEN "arrears"
        ELSE IF Contains(lowered, "classification") THEN "classification"
        ELSE IF Contains(lowered, "joint") THEN "joint"
        ELSE IF Contains(lowered, "mandates") THEN "mandates"
        ELSE IF Contains(lowered, "vintage") THEN "vintage"
        ELSE IF Contains(lowered, "elma") THEN "elma"
        ELSE IF Contains(lowered, "active") \/ Contains(lowered, "inactive") THEN "active"
        ELSE None

\* The action lines; the bullet that starts each line is written *.
ActionLine(category) ==
    CASE category = "arrears" -> "* **Clear all arrears** and wait 60-day cooling period"
      [] category = "classification" ->
            "* **Upgrade customer classification** - Contact RM/Portfolio team"
      [] category = "joint" -> "* **Convert to individual account** - Joint accounts ineligible"
      [] category = "mandates" -> "* **Update to SOLE SIGNATORY** - Remove additional signatories"
      [] category = "vintage" -> "* **Wait minimum 6 months** banking relationship"
      [] category = "elma" -> "* **Register for mobile banking** - Setup NCBA SASA"
      [] category = "active" -> "* **Reactivate account** - Regular transactions for 30+ days"

GenericActionLine == "* Contact Portfolio Management for detailed review"

\* A loop that adds a line for every check, whatever action_map holds.
RECURSIVE WithActions_NoMap(_, _, _, _)
WithActions_NoMap(actions, action_map, failed_checks, i) ==
    IF i > Len(failed_checks) THEN actions
    ELSE LET category == ActionCategory(failed_checks[i].check_type)
         IN  IF category # None
             THEN WithActions_NoMap(Append(actions, ActionLine(category)),
                                    action_map \cup {category}, failed_checks, i + 1)
             ELSE WithActions_NoMap(actions, action_map, failed_checks, i + 1)

\* The loop over failed_checks from the i-th check on.
RECURSIVE WithActions(_, _, _, _)
WithActions(actions, action_map, failed_checks, i) ==
    IF i > Len(failed_checks) THEN actions
    ELSE LET category == ActionCategory(failed_checks[i].check_type)
         IN  IF category # None /\ category \notin action_map
             THEN WithActions(Append(actions, ActionLine(category)),
                              action_map \cup {category}, failed_checks, i + 1)
             ELSE WithActions(actions, action_map, failed_checks, i + 1)

\* Action items with no line for the case that no check maps to a category.
GenerateActionItems_NoGeneric(failed_checks) == WithActions(<<>>, {}, failed_checks, 1)

\* _generate_action_items
GenerateActionItems(failed_checks) ==
    LET actions == WithActions(<<>>, {}, failed_checks, 1)
    IN  IF actions = <<>> THEN <<GenericActionLine>> ELSE actions

\* What _generate_ineligible_response gets from the engine for a record.
Evaluation(record) ==
    LET failed_checks == AnalyzeFailedChecks(record)
    IN  [failed_checks |-> failed_checks, actions |-> GenerateActionItems(failed_checks)]

\* An engine that consumes the reasons of the record it is given.
RecordAfterEvaluation_Consumed(record) ==
    [col \in DOMAIN record |-> IF col = "reasons" THEN "" ELSE record[col]]

\* The record after an evaluation: the engine reads it with get() and assigns
\* to none of its keys.
RecordAfterEvaluation(record) == record

Evaluate ==
    /\ Len(evaluated) < MaxEvaluations
    /\ evaluated' = Append(evaluated, Evaluation(customer_record))
    /\ customer_record' = RecordAfterEvaluation(customer_record)
    /\ UNCHANGED <<dataVars, elig, notElig>>

\* The records the engine is given.  A cell is a text or None; the columns a
\* record does not have are read as ''.
ReasonsCells ==
    {"", None, "nan", "Joint_Check", "joint_account, Joint_Check,DPD_Arrears_Check_DS",
     "low_balance,,low_balance", "Dpd_History,Staff_Loan_Arrears,kyc",
     "Mandates_Check,vintage,elma_x,inactive_90,active_flag"}
ExplanationCells == {"", None, "Shared account", "first, second, third"}

CustomerRecords ==
    {[ACCOUNT_NUMBER |-> "7770000001", CUS_NAME_1 |-> "JANE", RISK_CLASS |-> "A9",
      Arrears_Days |-> "45",
      recency_check |-> r, Joint_Check |-> j, DPD_Arrears_Check_DS |-> d,
      Classification_Check |-> c, Average_Bal_check |-> a,
      reasons |-> rs, reasons_explanation |-> re] :
        r \in {" n", "Y", None}, j \in {"EXCLUDE", "Include"},
        d \in {" exclude ", "Include"}, c \in {"Exclude", None},
        a \in {"EXCLUDE", "Include"}, rs \in ReasonsCells, re \in ExplanationCells}

(***************************************************************************)
(* The eligibility engine: claims                                          *)
(***************************************************************************)

Fails(record, col) == Upper(Cell(record, col)) = "EXCLUDE"
RecencyFails(record) == Upper(Cell(record, "recency_check")) = "N"

IdsOf(failed_checks) == [i \in 1..Len(failed_checks) |-> failed_checks[i].check_type]

\* The reasons cell of the record is empty: no text, or no value at all.
ReasonsEmpty(record) == DictGet(record, "reasons", "") \in {"", None}

\* C11: a record whose Joint_Check is EXCLUDE, whose recency flag and other
\* columns pass and whose reasons cell is empty gives exactly one failed check,
\* Joint_Check, and exactly the joint-account action line.
C11_JointCheckOnly ==
    \A k \in 1..Len(evaluated) :
        (/\ Fails(customer_record, "Joint_Check")
         /\ ~RecencyFails(customer_record)
         /\ \A i \in 2..Len(CHECK_COLUMNS) : ~Fails(customer_record, CHECK_COLUMNS[i].col)
         /\ ReasonsEmpty(customer_record)) =>
            /\ IdsOf(evaluated[k].failed_checks) = <<"Joint_Check">>
            /\ evaluated[k].actions = <<ActionLine("joint")>>

\* The tokens of the reasons cell, as the engine reads them.
ReasonTokens(record) ==
    LET text == Cell(record, "reasons")
    IN  IF text # "" /\ text # "nan" THEN StrippedTokens(text) ELSE <<>>

ExplanationTokens(record) ==
    LET text == Cell(record, "reasons_explanation")
    IN  IF text # "" /\ text # "nan" THEN StrippedTokens(text) ELSE ReasonTokens(record)

\* The failures of the recency flag and of the catalog, recency first, the
\* columns in catalog order.
CatalogIds(record) ==
    LET failing == SelectSeq(CHECK_COLUMNS, LAMBDA e : Fails(record, e.col))
    IN  (IF RecencyFails(record) THEN <<"recency_check">> ELSE <<>>)
        \o [i \in 1..Len(failing) |-> failing[i].col]

\* The places of the reasons tokens that are new: not empty, no identifier of
\* the catalog failures, no repetition of an earlier token.
AcceptedPlaces(record) ==
    LET tokens == ReasonTokens(record)
    IN  {i \in 1..Len(tokens) :
            /\ tokens[i] # ""
            /\ tokens[i] \notin Range(CatalogIds(record))
            /\ \A j \in 1..(i - 1) : tokens[j] # tokens[i]}

\* The n-th smallest element of a set of numbers.
Nth(S, n) == CHOOSE i \in S : Cardinality({j \in S : j < i}) = n - 1

\* C12: in every evaluation the identifiers of the failed checks are pairwise
\* distinct, and the entry kept for an identifier is the first one detected: the
\* catalog's entry for a failing column, the first occurrence for a token.
C12_DistinctIdentifiers ==
    \A k \in 1..Len(evaluated) :
        LET failed_checks == evaluated[k].failed_checks
            catalog == CatalogIds(customer_record)
            places == AcceptedPlaces(customer_record)
            explanations == ExplanationTokens(customer_record)
        IN  /\ \A i, j \in 1..Len(failed_checks) :
                    i # j => failed_checks[i].check_type # failed_checks[j].check_type
            /\ \A e \in Range(CHECK_COLUMNS) :
                    Fails(customer_record, e.col) =>
                        \E i \in 1..Len(catalog) :
                            /\ failed_checks[i].check_type = e.col
                            /\ failed_checks[i].description = e.description
            /\ Len(failed_checks) = Len(catalog) + Cardinality(places)
            /\ \A n \in 1..Cardinality(places) :
                    LET place == Nth(places, n)
                    IN  failed_checks[Len(catalog) + n].explanation =
                            IF place <= Len(explanations) THEN explanations[place]
                            ELSE ReasonTokens(customer_record)[place]

\* Joint_Check failed and the reasons name it again after joint_account: the
\* failed checks are Joint_Check, once, with its catalog text, and joint_account.
C12_Witness ==
    /\ evaluated # <<>>
    /\ customer_record.reasons = "joint_account, Joint_Check,DPD_Arrears_Check_DS"
    /\ IdsOf(evaluated[1].failed_checks) = <<"Joint_Check", "joint_account", "DPD_Arrears_Check_DS">>
    /\ evaluated[1].failed_checks[1].description = "Joint Account Check"
    /\ evaluated[1].failed_checks[3].description = "Dpd Arrears Check Ds"

Categories == {"arrears", "classification", "joint", "mandates", "vintage", "elma", "active"}

\* The category each failed check maps to, None for a check that maps to none.
CategoriesOf(failed_checks) ==
    [i \in 1..Len(failed_checks) |-> ActionCategory(failed_checks[i].check_type)]

\* The places of the failed checks that map to a category.
PlacesOf(failed_checks, category) ==
    LET mapped == CategoriesOf(failed_checks)
    IN  {i \in 1..Len(failed_checks) : mapped[i] = category}

\* C14: every category has at most one line among the actions, its line is
\* there exactly when a failed check maps to it, and failed checks that map to
\* no category give the one generic line.
C14_ActionsPerCategory ==
    \A k \in 1..Len(evaluated) :
        LET failed_checks == evaluated[k].failed_checks
            actions == evaluated[k].actions
            mapped == Range(CategoriesOf(failed_checks))
        IN  /\ \A c \in Categories :
                    /\ Cardinality({i \in 1..Len(actions) : actions[i] = ActionLine(c)}) <= 1
                    /\ ActionLine(c) \in Range(actions) <=> c \in mapped
            /\ mapped \cap Categories = {} => actions = <<GenericActionLine>>
            /\ GenericActionLine \in Range(actions) => actions = <<GenericActionLine>>

\* Three failed checks map to the arrears category and the actions have its
\* line once; in another record the only failed check maps to no category.
C14_Witness ==
    /\ evaluated # <<>>
    /\ Cardinality(PlacesOf(evaluated[1].failed_checks, "arrears")) = 3
    /\ Len(evaluated[1].failed_checks) = 4
    /\ evaluated[1].actions = <<ActionLine("arrears")>>

\* C15: the failed checks are the recency check, then the failing columns in
\* catalog order, then the new reasons tokens in the order of the reasons cell;
\* the action lines are in the order of the first failed check of their category.
C15_InsertionOrder ==
    \A k \in 1..Len(evaluated) :
        LET failed_checks == evaluated[k].failed_checks
            actions == evaluated[k].actions
            catalog == CatalogIds(customer_record)
            places == AcceptedPlaces(customer_record)
            mapped == CategoriesOf(failed_checks)
            matched == Range(mapped) \cap Categories
            first == [c \in matched |->
                        CHOOSE i \in 1..Len(mapped) :
                            mapped[i] = c /\ \A j \in 1..(i - 1) : mapped[j] # c]
        IN  /\ IdsOf(failed_checks) =
                    catalog \o [n \in 1..Cardinality(places) |->
                                    ReasonTokens(customer_record)[Nth(places, n)]]
            /\ matched # {} =>
                    /\ Len(actions) = Cardinality(matched)
                    /\ \A c \in matched :
                            actions[Cardinality({d \in matched : first[d] < first[c]}) + 1]
                                = ActionLine(c)

\* Recency, two columns and the tokens of the reasons failed, in that order, and
\* the lines are joint, classification, mandates, vintage, mobile banking, activity.
C15_Witness ==
    /\ evaluated # <<>>
    /\ IdsOf(evaluated[1].failed_checks) =
            <<"recency_check", "Joint_Check", "Classification_Check", "Mandates_Check",
              "vintage", "elma_x", "inactive_90", "active_flag">>
    /\ evaluated[1].actions =
            <<ActionLine("joint"), ActionLine("classification"), ActionLine("mandates"),
              ActionLine("vintage"), ActionLine("elma"), ActionLine("active")>>

\* The number of failed checks with the identifier id.
CountOf(failed_checks, id) ==
    Cardinality({i \in 1..Len(failed_checks) : failed_checks[i].check_type = id})

\* C24: for every record and every column of the catalog, the failed checks
\* hold exactly one entry with the column's identifier when the column's value,
\* stripped and upper-cased, is EXCLUDE, and none otherwise; a missing column
\* passes.
C24_CatalogColumnIff ==
    \A k \in 1..Len(evaluated) :
        \A e \in Range(CHECK_COLUMNS) :
            CountOf(evaluated[k].failed_checks, e.col) =
                IF Fails(customer_record, e.col) THEN 1 ELSE 0

\* The entries of the failed checks with the identifier id.
EntriesOf(failed_checks, id) ==
    SelectSeq(failed_checks, LAMBDA fc : fc.check_type = id)

\* C24, amended: for every record and every column c of the catalog, the
\* failed checks hold exactly one entry with identifier c, the catalog's, when
\* the value of c, stripped and upper-cased, is EXCLUDE; when it is not (or c is
\* missing) they hold none, unless a token of the reasons cell is c: then they
\* hold exactly one, built from the token.
C24_CatalogColumn ==
    \A k \in 1..Len(evaluated) :
        \A e \in Range(CHECK_COLUMNS) :
            LET entries == EntriesOf(evaluated[k].failed_checks, e.col)
            IN  IF Fails(customer_record, e.col)
                THEN /\ Len(entries) = 1
                     /\ entries[1].description = e.description
                ELSE IF e.col \in Range(ReasonTokens(customer_record))
                THEN /\ Len(entries) = 1
                     /\ entries[1].description = Title(Replace(e.col, "_", " "))
                     /\ entries[1].supporting_data = <<>>
                ELSE entries = <<>>

\* ' exclude ' failed DPD_Arrears_Check_DS once, the missing Mandates_Check and
\* the None of Classification_Check passed, and the passing Joint_Check came in
\* through the reasons.
C24_Witness ==
    /\ evaluated # <<>>
    /\ customer_record.DPD_Arrears_Check_DS = " exclude "
    /\ customer_record.Classification_Check = None
    /\ customer_record.Joint_Check = "Include"
    /\ customer_record.Average_Bal_check = "Include"
    /\ customer_record.recency_check = "Y"
    /\ customer_record.reasons = "Joint_Check"
    /\ IdsOf(evaluated[1].failed_checks) = <<"DPD_Arrears_Check_DS", "Joint_Check">>

\* The reasons_explanation cell of the record is absent or empty.
ExplanationEmpty(record) ==
    \/ DictGet(record, "reasons_explanation", "") \in {"", None}
    \/ Cell(record, "reasons_explanation") \in {"", "nan"}

\* The explanation that goes with the token at place i of the reasons cell.
PairedExplanation(record, i) ==
    LET tokens == StrippedTokens(Cell(record, "reasons"))
        explanations == StrippedTokens(Cell(record, "reasons_explanation"))
    IN  IF ExplanationEmpty(record) THEN tokens[i]
        ELSE IF i <= Len(explanations) THEN explanations[i]
        ELSE tokens[i]

\* C25: for a record with a reasons cell that is not empty, every token that is
\* not empty and not yet a collected identifier gives exactly one appended
\* failed check, with the token as identifier and as explanation the token at
\* the same place of the reasons_explanation cell when it has that place, the
\* raw token otherwise (cell absent, empty or too short); the places count
\* every token of the reasons cell.
C25_PositionalExplanations ==
    \A k \in 1..Len(evaluated) :
        (~ReasonsEmpty(customer_record) /\ Cell(customer_record, "reasons") # "nan") =>
            LET failed_checks == evaluated[k].failed_checks
                tokens == StrippedTokens(Cell(customer_record, "reasons"))
                catalog == CatalogIds(customer_record)
                places == AcceptedPlaces(customer_record)
            IN  /\ Len(failed_checks) = Len(catalog) + Cardinality(places)
                /\ \A n \in 1..Cardinality(places) :
                        LET i == Nth(places, n)
                            fc == failed_checks[Len(catalog) + n]
                        IN  /\ fc.check_type = tokens[i]
                            /\ fc.explanation = PairedExplanation(customer_record, i)

\* C30: the actions of an evaluation are never empty, also for a record with
\* no failed check at all; when no failed check maps to a category they are the
\* generic contact line and nothing else.
C30_ActionsNeverEmpty ==
    \A k \in 1..Len(evaluated) :
        LET failed_checks == evaluated[k].failed_checks
            actions == evaluated[k].actions
        IN  /\ Len(actions) >= 1
            /\ failed_checks = <<>> => actions = <<GenericActionLine>>
            /\ (\A i \in 1..Len(failed_checks) :
                    ActionCategory(failed_checks[i].check_type) = None) =>
                        actions = <<GenericActionLine>>

\* A record on which no check fails: no failed check, the generic line alone.
C30_Witness ==
    /\ evaluated # <<>>
    /\ evaluated[1].failed_checks = <<>>
    /\ evaluated[1].actions = <<GenericActionLine>>

(***************************************************************************)
(* DigitalLendingProcessor (processors/digital_lending/processor.py).      *)
(* A message is modelled by its fixed part; the greeting by hour of day    *)
(* that the real text starts with is left out.                             *)
(***************************************************************************)

UnknownToolResponse == Response("Unknown tool requested", "error", 0, "error", NoData)

MissingDataResponse ==
    Response("I need an account number to check eligibility. Please provide it.",
             "eligibility_check", 80, "missing_data", NoData)

NotFoundResponse(account_number) ==
    Response("Account " \o account_number
                 \o " not found in records. Please verify the account number.",
             "eligibility_check", 90, "not_found", NoData)

GenerateEligibleResponse(account_number) ==
    Response("Digital Loan Status: ELIGIBLE " \o account_number,
             "eligibility_check", 95, "success",
             [is_eligible |-> TRUE, account_number |-> account_number])

GenerateIneligibleResponse(customer_data) ==
    Response("Digital Loan Status: NOT ELIGIBLE " \o customer_data.ACCOUNT_NUMBER,
             "eligibility_check", 95, "success",
             [is_eligible |-> FALSE,
              account_number |-> customer_data.ACCOUNT_NUMBER,
              customer_name |-> customer_data.CUS_NAME_1,
              failed_checks |-> AnalyzeFailedChecks(customer_data)])

\* An eligibility check that reads the reasons table before the warehouse.
CheckEligibilityRun_ReasonsFirst(arguments) ==
    LET account_number == DictGet(arguments, "account_number", None)
        cleaned == Strip(account_number)
        customer == GetCustomerData(cleaned)
        in_warehouse == IsInWarehouse(cleaned)
    IN  IF Falsy(account_number)
        THEN [response |-> MissingDataResponse, lookups |-> <<>>]
        ELSE IF customer.found
        THEN [response |-> GenerateIneligibleResponse(customer.row),
              lookups |-> <<"reasons">>]
        ELSE IF in_warehouse.found
        THEN [response |-> GenerateEligibleResponse(in_warehouse.account),
              lookups |-> <<"reasons", "warehouse">>]
        ELSE [response |-> NotFoundResponse(cleaned),
              lookups |-> <<"reasons", "warehouse">>]

\* _check_eligibility: the response, and the lookups it made, in order.
CheckEligibilityRun(arguments) ==
    LET account_number == DictGet(arguments, "account_number", None)
        cleaned == Strip(account_number)
        in_warehouse == IsInWarehouse(cleaned)
        customer == GetCustomerData(cleaned)
    IN  IF Falsy(account_number)
        THEN [response |-> MissingDataResponse, lookups |-> <<>>]
        ELSE IF in_warehouse.found
        THEN [response |-> GenerateEligibleResponse(in_warehouse.account),
              lookups |-> <<"warehouse">>]
        ELSE IF ~customer.found
        THEN [response |-> NotFoundResponse(cleaned),
              lookups |-> <<"warehouse", "reasons">>]
        ELSE [response |-> GenerateIneligibleResponse(customer.row),
              lookups |-> <<"warehouse", "reasons">>]

CheckEligibility(arguments) == CheckEligibilityRun(arguments).response

\* What execute gives back when it raises instead of returning a Response.
ExecuteRaised == [raised |-> TRUE]

\* DigitalLendingProcessor.execute; arguments.get raises when the arguments are
\* no mapping.
DigitalLendingExecute(tool_name, arguments) ==
    IF tool_name = "check_eligibility"
    THEN IF IsMapping(arguments) THEN CheckEligibility(arguments) ELSE ExecuteRaised
    ELSE UnknownToolResponse

\* The accounts and the rows the datasets are drawn from.
WarehouseAccounts == <<"5034460001", "5034460002", "8880000001">>
ReasonsRows ==
    <<[CUSTOMERNO |-> "777", ACCOUNT_NUMBER |-> "7770000001", CUS_NAME_1 |-> "JANE",
       Joint_Check |-> "EXCLUDE", reasons |-> None],
      [CUSTOMERNO |-> "503446", ACCOUNT_NUMBER |-> "5034460002", CUS_NAME_1 |-> "JOHN"]>>

\* The subsequences of a sequence.
RECURSIVE SubSequences(_)
SubSequences(q) ==
    IF q = <<>> THEN {<<>>}
    ELSE LET rest == SubSequences(Tail(q))
         IN  rest \cup {<<Head(q)>> \o r : r \in rest}

\* The identifiers a caller passes: none, empty, blank, customer numbers (short),
\* account numbers (10 characters), with and without surrounding blanks.
Identifiers ==
    {None, "", " ", "503446", " 503446 ", "777", "5034460002", "7770000001",
     "8880000001", "999", "50344600"}

ArgumentsOfEligibility ==
    {<<>>} \cup {[account_number |-> i] : i \in Identifiers}

NoEligCall ==
    [arguments |-> <<>>, response |-> UnknownToolResponse, lookups |-> <<>>,
     called |-> FALSE]

CallCheckEligibility(arguments) ==
    LET run == CheckEligibilityRun(arguments)
    IN  /\ elig' = [arguments |-> arguments, response |-> run.response,
                    lookups |-> run.lookups, called |-> TRUE]
        /\ UNCHANGED <<dataVars, engVars, notElig>>

(***************************************************************************)
(* BaseLLM.generate (core/llm/base.py): the text a provider generates, or  *)
(* the exception it raises.                                                *)
(***************************************************************************)

GenerationError == "GenerationError"
GeneratedTexts == {" ", " An answer. "}
GenerateOutcomes == GeneratedTexts \cup {GenerationError}

(***************************************************************************)
(* FAQProcessor (processors/faq/processor.py)                              *)
(***************************************************************************)

\* A question value that is not a str (a number, a list), which the provider
\* may put in the arguments.
NotAString == "<not a str>"

\* _find_relevant_faqs on the FAQ file of the model: one entry, about the
\* requirements, found for the question that asks about them.
RelevantFaqCount(question) ==
    IF question = "What are the eligibility requirements?" THEN 1 ELSE 0

FaqCannedAnswer ==
    "I encountered an error generating a response. Please try rephrasing your question."

\* _generate_llm_answer: the stripped text, or the canned text when generate raises.
GenerateLlmAnswer(generated) ==
    IF generated = GenerationError THEN FaqCannedAnswer ELSE Strip(generated)

\* _answer_faq; question.lower() raises for a question that is not a str.
AnswerFaq(arguments, generated) ==
    LET question == DictGet(arguments, "question", "")
    IN  IF question = NotAString THEN ExecuteRaised
        ELSE Response(GenerateLlmAnswer(generated), "general_inquiry", 85, "success",
                      [faq_count |-> RelevantFaqCount(question)])

FaqExecute(tool_name, arguments, generated) ==
    IF tool_name = "answer_faq"
    THEN IF IsMapping(arguments) THEN AnswerFaq(arguments, generated) ELSE ExecuteRaised
    ELSE UnknownToolResponse

(***************************************************************************)
(* GeneralInquiryProcessor (processors/general_inquiry/processor.py)       *)
(***************************************************************************)

\* The queries of the model.
Queries == {"Hi", "Check eligibility for account 503446"}

Greetings == {"hi", "hello", "hey", "good morning", "good afternoon", "good evening"}

IsGreeting(query) == \E greet \in Greetings : Contains(Lower(query), greet)

\* The message is the part of the text that does not depend on the hour; the
\* suggestions of the Response are left out.
HandleGreeting ==
    Response("I'm Safina, your AI assistant for NCBA Bank's digital lending queries.",
             "greeting", 95, "success", NoData)

GeneralCannedAnswer ==
    "I'm here to help with digital lending queries. Please ask about loan eligibility, requirements, or processes."

HandleGeneral(generated) ==
    IF generated = GenerationError
    THEN Response(GeneralCannedAnswer, "general_inquiry", 60, "success", NoData)
    ELSE Response(Strip(generated), "general_inquiry", 75, "success", NoData)

GeneralExecute(context, generated) ==
    IF IsGreeting(context.original_query) THEN HandleGreeting
    ELSE HandleGeneral(generated)

(***************************************************************************)
(* ProcessorRegistry (processors/registry.py).  A processor is its name,   *)
(* the names of the tools it declares, in order, and which instance it is. *)
(***************************************************************************)

DigitalLendingProcessor ==
    [name |-> "digital_lending", tools |-> <<"check_eligibility">>, instance |-> 1]
FAQProcessor == [name |-> "faq", tools |-> <<"answer_faq">>, instance |-> 2]
GeneralInquiryProcessor ==
    [name |-> "general_inquiry", tools |-> <<"general_response">>, instance |-> 3]

NoProcessor == [name |-> None, tools |-> <<>>, instance |-> 0]
NoTools == [t \in {} |-> NoProcessor]

\* A registration that moves a name registered again to the end.
WithProcessor_Moved(ps, processor) ==
    Append(SelectSeq(ps, LAMBDA x : x.name # processor.name), processor)

\* self.processors[processor.name] = processor: a dict keeps the place of a key
\* it already has.
WithProcessor(ps, processor) ==
    IF \E i \in 1..Len(ps) : ps[i].name = processor.name
    THEN [i \in 1..Len(ps) |-> IF ps[i].name = processor.name THEN processor ELSE ps[i]]
    ELSE Append(ps, processor)

\* A registration that leaves a tool with the processor that owns it.
WithTools_FirstWins(tm, processor) ==
    [t \in DOMAIN tm \cup Range(processor.tools) |->
        IF t \in DOMAIN tm THEN tm[t] ELSE processor]

\* self.tools_map[tool.name] = processor, for every tool of the processor.
WithTools(tm, processor) ==
    [t \in DOMAIN tm \cup Range(processor.tools) |->
        IF t \in Range(processor.tools) THEN processor ELSE tm[t]]

RegisterProcessor(processor) ==
    /\ Len(registrations) < MaxRegistrations
    /\ processors' = WithProcessor(processors, processor)
    /\ tools_map' = WithTools(tools_map, processor)
    /\ registrations' = Append(registrations, processor)
    /\ UNCHANGED <<all_tools, notReg>>

\* tools_map.get(tool_name)
GetProcessorForTool(tool_name) ==
    IF tool_name \in DOMAIN tools_map THEN tools_map[tool_name] ELSE NoProcessor

RECURSIVE AllToolsOf(_)
AllToolsOf(ps) == IF ps = <<>> THEN <<>> ELSE Head(ps).tools \o AllToolsOf(Tail(ps))

GetAllTools == AllToolsOf(processors)

\* No get_all_tools call yet.
NoCatalog == [after |-> -1, tools |-> <<>>]

\* A call of get_all_tools, after so many registrations.
CallGetAllTools ==
    /\ all_tools' = [after |-> Len(registrations), tools |-> GetAllTools]
    /\ UNCHANGED <<processors, tools_map, registrations, notReg>>

\* The processors given to register_processor: the three of the application, a
\* second general-inquiry instance, a processor named faq that declares two
\* tools, one of them the lending tool, and a processor with a tool of its own.
Processors ==
    {DigitalLendingProcessor, FAQProcessor, GeneralInquiryProcessor,
     [GeneralInquiryProcessor EXCEPT !.instance = 4],
     [name |-> "faq", tools |-> <<"answer_faq", "check_eligibility">>, instance |-> 5],
     [name |-> "reports", tools |-> <<"summarize_account", "general_response">>,
      instance |-> 6]}

\* Whether execute gets as far as llm_provider.generate: the FAQ processor for
\* its tool and a question that is a str, the general-inquiry processor for a
\* query that is no greeting, the lending processor never.
CallsGenerate(processor, tool_name, arguments, context) ==
    IF processor.name = "faq"
    THEN /\ tool_name = "answer_faq"
         /\ IsMapping(arguments)
         /\ DictGet(arguments, "question", "") # NotAString
    ELSE IF processor.name = "general_inquiry" THEN ~IsGreeting(context.original_query)
    ELSE FALSE

\* processor.execute, dispatched on the class of the processor.
ProcessorExecute(processor, tool_name, arguments, context, generated) ==
    IF processor.name = "digital_lending" THEN DigitalLendingExecute(tool_name, arguments)
    ELSE IF processor.name = "faq" THEN FaqExecute(tool_name, arguments, generated)
    ELSE IF processor.name = "general_inquiry" THEN GeneralExecute(context, generated)
    ELSE ExecuteRaised

(***************************************************************************)
(* ContextManager (core/context_manager.py)                                *)
(***************************************************************************)

NoSessions == [s \in {} |-> <<>>]
NoContext == [session_id |-> None]

\* sessions.get(session_id, []): reading a missing key creates nothing.
History(s) == IF s \in DOMAIN sessions THEN sessions[s] ELSE <<>>

\* The list get_context puts in the context: the session's own list object when
\* the key exists, a new empty list otherwise.
Fresh == "fresh list"
HistoryRef(s) == IF s \in DOMAIN sessions THEN s ELSE Fresh
ListOf(ref) == IF ref = Fresh THEN <<>> ELSE sessions[ref]

\* A context whose account is the newest one any interaction of the history has.
GetContext_LastKnownAccount(s) ==
    LET history == History(s)
        known == {i \in 1..Len(history) : history[i].account_number # None}
        newest == CHOOSE i \in known : \A j \in known : j <= i
    IN  [session_id |-> s,
         history_length |-> Len(history),
         last_account |-> IF known # {} THEN history[newest].account_number ELSE None,
         last_intent |-> IF history # <<>> THEN history[Len(history)].intent ELSE None,
         history |-> HistoryRef(s)]

GetContext(s) ==
    LET history == History(s)
        last_interaction == history[Len(history)]
    IN  [session_id |-> s,
         history_length |-> Len(history),
         last_account |-> IF history # <<>> THEN last_interaction.account_number ELSE None,
         last_intent |-> IF history # <<>> THEN last_interaction.intent ELSE None,
         history |-> HistoryRef(s)]

\* An interaction that leaves the account identifier out.
NewInteraction_NoAccount(query, response, intent, account_number) ==
    [timestamp |-> clock + 1,
     query |-> query,
     response |-> response.message,
     intent |-> intent,
     account_number |-> None]

\* The interaction update_context builds; it keeps the response's message only.
NewInteraction(query, response, intent, account_number) ==
    [timestamp |-> clock + 1,
     query |-> query,
     response |-> response.message,
     intent |-> intent,
     account_number |-> account_number]

\* An append to one list that all the sessions share.
WithAppended_Shared(ss, s, interaction) ==
    [x \in DOMAIN ss \cup {s} |->
        Append(IF x \in DOMAIN ss THEN ss[x] ELSE <<>>, interaction)]

\* self.sessions[session_id].append(interaction); the defaultdict creates the key.
WithAppended(ss, s, interaction) ==
    [x \in DOMAIN ss \cup {s} |->
        IF x = s THEN Append(IF s \in DOMAIN ss THEN ss[s] ELSE <<>>, interaction)
        ELSE ss[x]]

\* len(self.sessions[session_id]) > self.max_history
OverLimit(ss, s) == Len(ss[s]) > max_history

\* A pop() that drops the newest interaction.
WithPopped_Newest(ss, s) == [ss EXCEPT ![s] = SubSeq(@, 1, Len(@) - 1)]

\* self.sessions[session_id].pop(0)
WithPopped(ss, s) == [ss EXCEPT ![s] = Tail(@)]

\* update_context run to its end with no other call in between.
WithUpdate(ss, s, interaction) ==
    LET a == WithAppended(ss, s, interaction)
    IN  IF OverLimit(a, s) THEN WithPopped(a, s) ELSE a

UpdateContext(s, query, response, intent, account_number) ==
    LET interaction == NewInteraction(query, response, intent, account_number)
    IN  /\ clock < MaxClock
        /\ sessions' = WithUpdate(sessions, s, interaction)
        /\ clock' = clock + 1
        /\ appended' = [appended EXCEPT ![s] = Append(@, interaction)]
        /\ UNCHANGED <<max_history, last_context, notCtx>>

CallGetContext(s) ==
    /\ last_context' = GetContext(s)
    /\ UNCHANGED <<max_history, sessions, clock, appended, notCtx>>

\* The calls the orchestrator makes: (query, response, account_number).
CtxCalls ==
    {[query |-> "hi",
      response |-> [message |-> "Good Morning!", intent |-> "greeting"],
      account_number |-> None],
     [query |-> "Check eligibility for account 503446",
      response |-> [message |-> "ELIGIBLE", intent |-> "eligibility_check"],
      account_number |-> "503446"],
     [query |-> "what is a loan",
      response |-> [message |-> "", intent |-> "general_inquiry"],
      account_number |-> None]}

\* The last n elements of a sequence.
LastN(q, n) == SubSeq(q, Len(q) - n + 1, Len(q))
Min(a, b) == IF a < b THEN a ELSE b

\* C6: after n sequential updates of a session its history is the last
\* min(n, max_history) interactions appended to it, in append order; every call
\* puts its interaction at the back and evicts at most one, the oldest.
C6_SlidingWindow ==
    /\ [](\A s \in SessionIds :
            History(s) = LastN(appended[s], Min(Len(appended[s]), max_history)))
    /\ [][\A s \in SessionIds :
            appended'[s] # appended[s] =>
                LET new == appended'[s][Len(appended'[s])]
                IN  \/ sessions'[s] = Append(History(s), new)
                    \/ sessions'[s] = Append(Tail(History(s)), new)]_vars

\* With max_history = 2, three updates of s1 left its 2nd and 3rd interactions.
C6_Witness ==
    /\ max_history = 2
    /\ Len(appended["s1"]) = 3
    /\ History("s1") = <<appended["s1"][2], appended["s1"][3]>>

\* C20: get_context(s) returns the whole current history of s with the account
\* number and the intent of its newest interaction only, and None for both when
\* the history is empty; an account number of an earlier interaction never
\* shows.  In this specification the steps that leave the clock alone are the
\* get_context calls.
C20_ContextOfLastInteraction ==
    [][clock' = clock =>
        \E s \in SessionIds :
            LET history == History(s)
                newest == history[Len(history)]
            IN  /\ last_context'.session_id = s
                /\ ListOf(last_context'.history) = history
                /\ last_context'.history_length = Len(history)
                /\ history = <<>> =>
                        /\ last_context'.last_account = None
                        /\ last_context'.last_intent = None
                /\ history # <<>> =>
                        /\ last_context'.last_account = newest.account_number
                        /\ last_context'.last_intent = newest.intent]_vars

\* The context of s1 after an interaction about 503446 and then a greeting with
\* no account: two interactions, no account, the greeting's intent.
C20_Witness ==
    /\ Len(History("s1")) = 2
    /\ History("s1")[1].account_number = "503446"
    /\ History("s1")[2].account_number = None
    /\ last_context.session_id = "s1"
    /\ ListOf(last_context.history) = History("s1")
    /\ last_context.history_length = 2
    /\ last_context.last_account = None
    /\ last_context.last_intent = "greeting"

(***************************************************************************)
(* LLMManager (core/llm/manager.py)                                        *)
(***************************************************************************)

\* providers.get(name): the provider registered under name, or None.
GetProvider(name) == IF name \in providers THEN name ELSE None

\* providers.get(default_provider_name); the name is None until it is set.
GetDefaultProvider == GetProvider(default_provider_name)

\* The registered names of fallback_order, in order.
GetFallbackProviders == SelectSeq(fallback_order, LAMBDA n : n \in providers)

RegisterProvider(name) ==
    /\ providers' = providers \cup {name}
    /\ UNCHANGED <<default_provider_name, fallback_order, avail, order_call, selection,
                   notSel>>

\* set_default_provider raises ValueError for an unregistered name and stores nothing.
SetDefaultProvider(name) ==
    /\ default_provider_name' = IF name \in providers THEN name ELSE default_provider_name
    /\ UNCHANGED <<providers, fallback_order, avail, order_call, selection, notSel>>

NoOrderCall == [order |-> <<>>, registered |-> {}]

\* An order stored without the names that are not registered.
StoredOrder_Registered(order) == SelectSeq(order, LAMBDA n : n \in providers)

\* self.fallback_order = order
StoredOrder(order) == order

SetFallbackOrder(order) ==
    /\ fallback_order' = StoredOrder(order)
    /\ UNCHANGED <<providers, default_provider_name, avail, order_call, selection, notSel>>

\* A set_fallback_order call before a run of selections: its argument and the
\* names registered at that moment are kept.
SetFallbackOrderInRun(order) ==
    /\ selected = <<>>
    /\ fallback_order' = StoredOrder(order)
    /\ order_call' = [order |-> order, registered |-> providers]
    /\ UNCHANGED <<providers, default_provider_name, avail, selection, notSel>>

\* The environment: a backend comes up or goes down between two calls.
SetAvail(name, report) ==
    /\ avail[name] # report
    /\ avail' = [avail EXCEPT ![name] = report]
    /\ UNCHANGED <<providers, default_provider_name, fallback_order, order_call,
                   selection, notSel>>

(***************************************************************************)
(* GeminiLLM.generate_with_tools (core/llm/gemini.py).  What the model     *)
(* answers is given by what the search for {...} and json.loads make of    *)
(* it: the call raised, the text has no {...}, the {...} does not parse,   *)
(* or it parses to an object, a function from its keys.  A value that is   *)
(* no mapping (a text, a list, null) is a record with the field            *)
(* not_a_mapping.                                                          *)
(***************************************************************************)

\* The fixed answer of generate_with_tools and _parse_tool_response when a step
\* fails; confidences are in hundredths.
DefaultToolCall == [tool_name |-> "answer_faq", arguments |-> <<>>, confidence |-> 50]

\* The tools handed over: Tool objects as the registry returns them, dicts as
\* the signature says, or none.
ToolLists == {"Tool objects", "dicts", "empty"}

\* tool['name'] raises TypeError on a Tool object.
BuildToolPromptRaises(available_tools) == available_tools = "Tool objects"

\* _parse_tool_response
ParseToolResponse(reply) ==
    IF reply.kind = "no_json" THEN DefaultToolCall
    ELSE IF reply.kind = "bad_json" THEN DefaultToolCall
    ELSE [tool_name |-> DictGet(reply.data, "tool_name", "answer_faq"),
          arguments |-> DictGet(reply.data, "arguments", <<>>),
          confidence |-> 90]

\* generate_with_tools: any exception of the three steps gives the default.
GenerateWithTools(available_tools, reply) ==
    IF BuildToolPromptRaises(available_tools) THEN DefaultToolCall
    ELSE IF reply.kind = "raises" THEN DefaultToolCall
    ELSE ParseToolResponse(reply)

\* Values of "arguments" that are no mapping: a text, null.
NotAMapping == [not_a_mapping |-> "503446"]
NullArguments == [not_a_mapping |-> None]

\* The objects the model's JSON parses to.
ReplyObjects ==
    LET names == {"check_eligibility", "answer_faq", "summarize_account", None}
        args == {<<>>, [account_number |-> "503446"], NotAMapping, NullArguments}
    IN  {[tool_name |-> n, arguments |-> a, reasoning |-> "r"] : n \in names, a \in args}
        \cup {[tool_name |-> n, reasoning |-> "r"] : n \in names}
        \cup {[arguments |-> a, reasoning |-> "r"] : a \in args}
        \cup {[reasoning |-> "r"], <<>>}

Replies ==
    {[kind |-> "raises"], [kind |-> "no_json"], [kind |-> "bad_json"]}
    \cup {[kind |-> "object", data |-> d] : d \in ReplyObjects}

NoToolSelection ==
    [available_tools |-> "empty", reply |-> [kind |-> "raises"],
     result |-> DefaultToolCall, called |-> 0]

\* A call of generate_with_tools; called counts the calls up to a bound.
CallGenerateWithTools(available_tools, reply) ==
    /\ tool_selection' =
            [available_tools |-> available_tools, reply |-> reply,
             result |-> GenerateWithTools(available_tools, reply),
             called |-> IF tool_selection.called < MaxToolSelections
                        THEN tool_selection.called + 1 ELSE tool_selection.called]
    /\ UNCHANGED <<pmVars, selection, selected, ctxVars, eligVars, regVars, pass>>

\* The provider's answer is well formed: it parsed to an object with a tool
\* name and a mapping of arguments.
WellFormed(reply) ==
    /\ reply.kind = "object"
    /\ "tool_name" \in DOMAIN reply.data
    /\ reply.data.tool_name # None
    /\ "arguments" \in DOMAIN reply.data
    /\ "not_a_mapping" \notin DOMAIN reply.data.arguments

\* C19: whenever the provider's answer is not well formed (the generation
\* raised, the text has no JSON object, the JSON does not parse, or the object
\* lacks a tool name or a mapping of arguments), generate_with_tools returns
\* exactly the default triple: answer_faq, no arguments, confidence 0.5.
C19_DefaultOnMalformed ==
    (tool_selection.called > 0 /\ ~WellFormed(tool_selection.reply)) =>
        tool_selection.result = DefaultToolCall

(***************************************************************************)
(* QueryOrchestrator._select_llm_provider (core/orchestrator.py)           *)
(***************************************************************************)

\* The loop over get_fallback_providers(): the first one that reports available.
RECURSIVE FirstAvailable(_)
FirstAvailable(ps) ==
    IF ps = <<>> THEN None
    ELSE IF avail[Head(ps)] = "raise" THEN Raised
    ELSE IF avail[Head(ps)] = "up" THEN Head(ps)
    ELSE FirstAvailable(Tail(ps))

\* The default provider, then the fallback providers.
SelectAfterPreference ==
    LET d == GetDefaultProvider
    IN  IF d # None /\ avail[d] = "raise" THEN Raised
        ELSE IF d # None /\ avail[d] = "up" THEN d
        ELSE FirstAvailable(GetFallbackProviders)

\* A selection that tries the default provider before the caller's preference.
SelectLLMProvider_DefaultFirst(preference) ==
    LET d == GetDefaultProvider
        p == IF preference # None THEN GetProvider(preference) ELSE None
    IN  IF d # None /\ avail[d] = "up" THEN d
        ELSE IF p # None /\ avail[p] = "up" THEN p
        ELSE FirstAvailable(GetFallbackProviders)

\* A selection that returns again what the last selection returned.
SelectLLMProvider_Cached(preference) ==
    IF selection.result \in providers THEN selection.result
    ELSE LET p == IF preference # None THEN GetProvider(preference) ELSE None
         IN  IF p # None /\ avail[p] = "up" THEN p ELSE SelectAfterPreference

\* `if preference:` is false for None; an unregistered preference is skipped.
SelectLLMProvider(preference) ==
    LET p == IF preference # None THEN GetProvider(preference) ELSE None
    IN  IF p # None /\ avail[p] = "raise" THEN Raised
        ELSE IF p # None /\ avail[p] = "up" THEN p
        ELSE SelectAfterPreference

Select(preference) ==
    /\ selection' = [preference |-> preference, result |-> SelectLLMProvider(preference)]
    /\ UNCHANGED <<pmVars, notSel>>

\* A selection of a run of selections: the calls of the run are kept in order.
SelectInRun(preference) ==
    /\ Len(selected) < MaxSelections
    /\ selection' = [preference |-> preference, result |-> SelectLLMProvider(preference)]
    /\ selected' = Append(selected, selection')
    /\ UNCHANGED <<pmVars, tool_selection, ctxVars, eligVars, regVars, pass>>

(***************************************************************************)
(* Provider selection: claims                                              *)
(***************************************************************************)

Usable(name) == name \in providers /\ avail[name] = "up"

\* The positions of the fallback order that hold a registered, available name.
UsableFallbackPositions == {i \in 1..Len(fallback_order) : Usable(fallback_order[i])}

\* The precedence as the specification words it: preferred, default, first usable
\* fallback, none.
ExpectedSelection(preference) ==
    IF preference # None /\ Usable(preference) THEN preference
    ELSE IF default_provider_name # None /\ Usable(default_provider_name)
         THEN default_provider_name
    ELSE IF UsableFallbackPositions # {}
         THEN fallback_order[CHOOSE i \in UsableFallbackPositions :
                                \A j \in UsableFallbackPositions : i <= j]
    ELSE None

\* C1: every selection returns the preferred provider if registered and available,
\* else the default if registered and available, else the first registered and
\* available name of the fallback order, else none; it never fails on an
\* unregistered or unavailable preference.
C1_SelectionPrecedence ==
    [][\A pref \in ProviderNames \cup {None} :
          Select(pref) =>
              /\ selection'.result = ExpectedSelection(pref)
              /\ selection'.result # Raised]_vars

\* {A unavailable, B available, default = A, fallback = [B]} selected B, and an
\* unregistered preferred name (C) fell through.
C1_Witness ==
    /\ providers = {"A", "B"}
    /\ default_provider_name = "A"
    /\ fallback_order = <<"B">>
    /\ avail["A"] = "down" /\ avail["B"] = "up"
    /\ selection = [preference |-> "C", result |-> "B"]

\* The newest call of the run.
LastSelected == selected[Len(selected)]

\* The first name of the stored order that is registered and available now.
FirstUsableFallback ==
    IF UsableFallbackPositions # {}
    THEN fallback_order[CHOOSE i \in UsableFallbackPositions :
                            \A j \in UsableFallbackPositions : i <= j]
    ELSE None

\* C21: set_fallback_order stores its argument as it is, unregistered names
\* included; a selection that gets to the fallback order returns the first name
\* of the stored order that is registered and available at the time of the
\* selection, so a name registered after the order was set takes part at its
\* place, and a name still unregistered is skipped and raises nothing.
C21_LazyFallbackFilter ==
    /\ [](fallback_order = order_call.order)
    /\ [][selected' # selected =>
            LET call == selected'[Len(selected')]
            IN  /\ call.result # Raised
                /\ (call.preference = None \/ ~Usable(call.preference)) =>
                        call.result = FirstUsableFallback]_vars

\* The order [C, B] was set when neither was registered; B was registered
\* later, C never: the selection skipped C and returned B.
C21_Witness ==
    /\ order_call = [order |-> <<"C", "B">>, registered |-> {}]
    /\ fallback_order = <<"C", "B">>
    /\ "C" \notin providers
    /\ selected # <<>>
    /\ LastSelected = [preference |-> None, result |-> "B"]

\* C22: no selection uses what an earlier one saw.  Every selection returns
\* what the precedence gives on the registrations and the reports of that
\* moment: the provider it returns reports available now, and a provider an
\* earlier selection of the run returned that reports unavailable now is not
\* returned.
C22_AvailabilityNotCached ==
    [][selected' # selected =>
        LET call == selected'[Len(selected')]
        IN  /\ call.result = ExpectedSelection(call.preference)
            /\ call.result \in ProviderNames => Usable(call.result)
            /\ \A i \in 1..Len(selected) :
                    (selected[i].result \in ProviderNames
                        /\ avail[selected[i].result] # "up") =>
                            call.result # selected[i].result]_vars

\* With the order [B, A] set when both were registered: the first selection
\* returned A because B was down, the second returned B, and A is down now.
C22_Witness ==
    /\ order_call = [order |-> <<"B", "A">>, registered |-> {"A", "B"}]
    /\ selected = <<[preference |-> None, result |-> "A"],
                    [preference |-> None, result |-> "B"]>>
    /\ avail["A"] = "down"

(***************************************************************************)
(* Eligibility check: claims                                               *)
(***************************************************************************)

\* The matching rule of both lookups, on a cleaned identifier.
MatchesAccount(id, account) ==
    IF Len(id) < 10 THEN StartsWith(account, id) ELSE account = id

QualifiedLookupMatches(identifier) ==
    \E i \in 1..Len(warehouse) : MatchesAccount(Strip(identifier), warehouse[i])

DisqualificationRecordExists(identifier) ==
    \E i \in 1..Len(reasons) :
        \/ MatchesAccount(Strip(identifier), reasons[i].ACCOUNT_NUMBER)
        \/ Len(Strip(identifier)) < 10 /\ reasons[i].CUSTOMERNO = Strip(identifier)

SaysEligible(response, flag) ==
    /\ response.status = "success"
    /\ response.intent = "eligibility_check"
    /\ "is_eligible" \in DOMAIN response.data
    /\ response.data.is_eligible = flag

\* C10: for a non-empty identifier the response says eligible exactly when the
\* qualified lookup matches, and the reasons table is then not read; it says
\* ineligible when the qualified lookup misses and a disqualification record
\* exists; its status is not_found when both lookups miss.
C10_EligibilityOutcome ==
    LET id == DictGet(elig.arguments, "account_number", None)
    IN  (elig.called /\ ~Falsy(id)) =>
            /\ SaysEligible(elig.response, TRUE) <=> QualifiedLookupMatches(id)
            /\ QualifiedLookupMatches(id) => elig.lookups = <<"warehouse">>
            /\ (~QualifiedLookupMatches(id) /\ DisqualificationRecordExists(id))
                   => SaysEligible(elig.response, FALSE)
            /\ (~QualifiedLookupMatches(id) /\ ~DisqualificationRecordExists(id))
                   => elig.response.status = "not_found"

\* An account in both datasets was found eligible.
C10_Witness ==
    /\ elig.called
    /\ elig.arguments = [account_number |-> "5034460002"]
    /\ QualifiedLookupMatches("5034460002")
    /\ DisqualificationRecordExists("5034460002")
    /\ SaysEligible(elig.response, TRUE)

(***************************************************************************)
(* QueryOrchestrator.process_query (core/orchestrator.py).  A pass is one  *)
(* call: pc is the step it is about to take, the other fields are its      *)
(* locals.  Five fields are for the record only: selected is the tool call *)
(* as the provider gave it, generated is what the provider's generate did  *)
(* when the processor called it, fault says that a step raised,            *)
(* history_before and appended_before are the session's history and the    *)
(* number of interactions ever appended to it when the call began.         *)
(***************************************************************************)

Passes == {"p1", "p2"}

NoToolCall == [tool_name |-> None]
NoResponse == [status |-> None]

IdlePass ==
    [pc |-> "idle", query |-> None, session_id |-> None, llm_provider |-> None,
     context |-> NoContext, selected |-> NoToolCall, tool_call |-> NoToolCall,
     processor |-> NoProcessor, response |-> NoResponse, returned |-> NoResponse,
     generated |-> None, fault |-> FALSE, history_before |-> <<>>,
     appended_before |-> 0]

NoProviderResponse ==
    Response("AI service is temporarily unavailable. Please try again.",
             "error", 0, "error", NoData)

GenericErrorResponse ==
    Response("I encountered an error processing your request. Please try again.",
             "error", 0, "error", NoData)

\* A clause that lets the exception leave process_query.
OnException_Propagate(r) == [r EXCEPT !.pc = "done", !.fault = TRUE]

\* except Exception: the generic error Response is returned.
OnException(r) ==
    [r EXCEPT !.pc = "done", !.fault = TRUE, !.returned = GenericErrorResponse]

\* An unavailable service answered with some confidence.
AfterSelection_Confident(r, provider) ==
    IF provider = Raised THEN OnException(r)
    ELSE IF provider = None
         THEN [r EXCEPT !.pc = "done", !.returned = [NoProviderResponse EXCEPT !.confidence = 50]]
    ELSE [r EXCEPT !.pc = "get_context", !.llm_provider = provider]

\* `if not llm_provider: return Response(...)`
AfterSelection(r, provider) ==
    IF provider = Raised THEN OnException(r)
    ELSE IF provider = None THEN [r EXCEPT !.pc = "done", !.returned = NoProviderResponse]
    ELSE [r EXCEPT !.pc = "get_context", !.llm_provider = provider]

Begin(p, query, session_id, model_preference) ==
    /\ pass[p].pc = "idle"
    /\ pass' = [pass EXCEPT ![p] =
            AfterSelection([IdlePass EXCEPT !.query = query, !.session_id = session_id,
                                           !.history_before = History(session_id),
                                           !.appended_before = Len(appended[session_id])],
                           SelectLLMProvider(model_preference))]
    /\ UNCHANGED <<selVars, ctxVars, eligVars, regVars>>

\* context = get_context(session_id); context['original_query'] = query
LoadContext(p) ==
    /\ pass[p].pc = "get_context"
    /\ pass' = [pass EXCEPT ![p].pc = "select_tool",
                            ![p].context = [original_query |-> pass[p].query]
                                           @@ GetContext(pass[p].session_id)]
    /\ UNCHANGED <<selVars, ctxVars, eligVars, regVars>>

\* BaseLLM.generate_with_tools: a tool call, or an exception.
ToolSelectionError == [raised |-> TRUE]
ToolCall(tool_name, arguments) ==
    [tool_name |-> tool_name, arguments |-> arguments, confidence |-> 90]
ToolCalls ==
    {DefaultToolCall}
    \cup {ToolCall("check_eligibility", a) :
            a \in {<<>>, [account_number |-> "503446"], [account_number |-> "777"],
                   [account_number |-> "999"]}}
    \cup {ToolCall("answer_faq", a) :
            a \in {[question |-> "What are the eligibility requirements?"],
                   [question |-> NotAString], [account_number |-> "503446"]}}
    \cup {ToolCall(n, a) :
            n \in {"general_response", "summarize_account"},
            a \in {<<>>, [account_number |-> "503446"]}}
ToolSelections == ToolCalls \cup {ToolSelectionError}

\* Tool calls a provider may return beside these: arguments that are a text or
\* a null, a tool name that is a list.
UnhashableToolName == "<a list>"
MalformedToolCalls ==
    {ToolCall("general_response", NotAMapping), ToolCall("check_eligibility", NotAMapping),
     ToolCall("answer_faq", NullArguments), ToolCall("summarize_account", NotAMapping),
     ToolCall(UnhashableToolName, <<>>)}

SelectTool(p, outcome) ==
    /\ pass[p].pc = "select_tool"
    /\ pass' = [pass EXCEPT ![p] =
            IF outcome = ToolSelectionError THEN OnException(@)
            ELSE [@ EXCEPT !.pc = "get_processor", !.selected = outcome,
                           !.tool_call = outcome]]
    /\ UNCHANGED <<selVars, ctxVars, eligVars, regVars>>

\* The instance `GeneralInquiryProcessor()` makes for one call.
NewGeneralInquiryProcessor == [GeneralInquiryProcessor EXCEPT !.instance = 4]
FallbackToolCall == [tool_name |-> "general_response", arguments |-> <<>>]

\* A lookup with no fallback: the call goes on with no processor.
Resolved_NoFallback(tool_call) ==
    [processor |-> GetProcessorForTool(tool_call.tool_name), tool_call |-> tool_call]

\* get_processor_for_tool, and the fallback to general inquiry when it finds none.
Resolved(tool_call) ==
    LET processor == GetProcessorForTool(tool_call.tool_name)
    IN  IF processor = NoProcessor
        THEN [processor |-> NewGeneralInquiryProcessor, tool_call |-> FallbackToolCall]
        ELSE [processor |-> processor, tool_call |-> tool_call]

\* tools_map.get raises TypeError for a tool name that is a list or an object.
GetProcessor(p) ==
    /\ pass[p].pc = "get_processor"
    /\ pass' = [pass EXCEPT ![p] =
            IF pass[p].tool_call.tool_name = UnhashableToolName THEN OnException(@)
            ELSE [@ EXCEPT !.pc = "execute",
                           !.processor = Resolved(pass[p].tool_call).processor,
                           !.tool_call = Resolved(pass[p].tool_call).tool_call]]
    /\ UNCHANGED <<selVars, ctxVars, eligVars, regVars>>

\* processor.execute(...); generated is what the provider's generate does if
\* the processor calls it.
Execute(p, generated) ==
    LET r == pass[p]
        response == ProcessorExecute(r.processor, r.tool_call.tool_name,
                                     r.tool_call.arguments, r.context, generated)
        called == CallsGenerate(r.processor, r.tool_call.tool_name,
                                r.tool_call.arguments, r.context)
    IN  /\ r.pc = "execute"
        /\ pass' = [pass EXCEPT ![p] =
                IF response = ExecuteRaised THEN OnException(@)
                ELSE [@ EXCEPT !.pc = "update_context", !.response = response,
                               !.generated = IF called THEN generated ELSE None]]
        /\ UNCHANGED <<selVars, ctxVars, eligVars, regVars>>

\* An update_context that runs before the account number is read.
WithInteraction_AppendFirst(ss, s, interaction, raised) == WithAppended(ss, s, interaction)

\* The sessions after step 7: tool_call['arguments'].get('account_number') comes
\* first, and when it raises update_context is not called.
WithInteraction(ss, s, interaction, raised) ==
    IF raised THEN ss ELSE WithAppended(ss, s, interaction)

\* Step 7 up to the first statement of update_context: the account number is
\* read, the interaction is built and appended.
AppendInteraction(p) ==
    LET r == pass[p]
        raised == ~IsMapping(r.tool_call.arguments)
        account_number == DictGet(r.tool_call.arguments, "account_number", None)
        interaction == NewInteraction(r.query, r.response, r.response.intent, account_number)
    IN  /\ r.pc = "update_context"
        /\ sessions' = WithInteraction(sessions, r.session_id, interaction, raised)
        /\ clock' = IF raised THEN clock ELSE clock + 1
        /\ appended' = IF raised THEN appended
                       ELSE [appended EXCEPT ![r.session_id] = Append(@, interaction)]
        /\ pass' = [pass EXCEPT ![p] =
                IF raised THEN OnException(@) ELSE [@ EXCEPT !.pc = "check_limit"]]
        /\ UNCHANGED <<max_history, last_context, selVars, eligVars, regVars>>

\* update_context, the test of the length; without eviction the call returns.
CheckLimit(p) ==
    /\ pass[p].pc = "check_limit"
    /\ pass' = [pass EXCEPT ![p] =
            IF OverLimit(sessions, @.session_id) THEN [@ EXCEPT !.pc = "pop"]
            ELSE [@ EXCEPT !.pc = "done", !.returned = pass[p].response]]
    /\ UNCHANGED <<selVars, ctxVars, eligVars, regVars>>

\* update_context, pop(0), which raises on an empty list; then the return.
PopOldest(p) ==
    LET s == pass[p].session_id
    IN  /\ pass[p].pc = "pop"
        /\ sessions' = IF sessions[s] = <<>> THEN sessions ELSE WithPopped(sessions, s)
        /\ pass' = [pass EXCEPT ![p] =
                IF sessions[s] = <<>> THEN OnException(@)
                ELSE [@ EXCEPT !.pc = "done", !.returned = pass[p].response]]
        /\ UNCHANGED <<max_history, clock, appended, last_context,
                       selVars, eligVars, regVars>>

\* The registry as create_app (api/app.py) wires it.
WiredProcessors ==
    WithProcessor(WithProcessor(WithProcessor(<<>>, DigitalLendingProcessor),
                                FAQProcessor), GeneralInquiryProcessor)
WiredTools ==
    WithTools(WithTools(WithTools(NoTools, DigitalLendingProcessor),
                        FAQProcessor), GeneralInquiryProcessor)

(***************************************************************************)
(* ProcessorRegistry: claims                                               *)
(***************************************************************************)

\* The tools declared by a processor given to register_processor so far.
DeclaredTools == UNION {Range(registrations[i].tools) : i \in 1..Len(registrations)}

\* The last registration whose processor declared the tool.
LastDeclaring(tool_name) ==
    CHOOSE i \in 1..Len(registrations) :
        /\ tool_name \in Range(registrations[i].tools)
        /\ \A j \in (i + 1)..Len(registrations) :
                tool_name \notin Range(registrations[j].tools)

\* C16: after any registrations, a tool that a registered processor declared
\* resolves to the processor of the last registration that declared it, a tool
\* none declared resolves to nothing, and a registration of a processor with a
\* tool that has an owner goes through like any other.
C16_LastRegistrationWins ==
    /\ [](/\ DOMAIN tools_map = DeclaredTools
          /\ \A t \in DeclaredTools :
                GetProcessorForTool(t) = registrations[LastDeclaring(t)])
    /\ [][\A processor \in Processors :
            (Len(registrations) < MaxRegistrations /\ registrations' # registrations
             /\ registrations'[Len(registrations')] = processor) =>
                \A t \in Range(processor.tools) : tools_map'[t] = processor]_vars

\* The lending processor registered check_eligibility, then the two-tool faq
\* processor took it over; answer_faq went from the FAQ processor to the same.
C16_Witness ==
    /\ Len(registrations) = 3
    /\ registrations[1] = DigitalLendingProcessor
    /\ registrations[2] = FAQProcessor
    /\ registrations[3].instance = 5
    /\ GetProcessorForTool("check_eligibility").instance = 5
    /\ GetProcessorForTool("answer_faq").instance = 5

\* The names registered so far, each at the place of its first registration.
RECURSIVE NamesInOrder(_)
NamesInOrder(log) ==
    IF log = <<>> THEN <<>>
    ELSE LET before == NamesInOrder(SubSeq(log, 1, Len(log) - 1))
             name == log[Len(log)].name
         IN  IF name \in Range(before) THEN before ELSE Append(before, name)

\* The processor stored under a name: the last one registered under it.
StoredUnder(name) ==
    registrations[CHOOSE i \in 1..Len(registrations) :
                      /\ registrations[i].name = name
                      /\ \A j \in (i + 1)..Len(registrations) : registrations[j].name # name]

RECURSIVE ToolsInOrder(_)
ToolsInOrder(names) ==
    IF names = <<>> THEN <<>>
    ELSE StoredUnder(Head(names)).tools \o ToolsInOrder(Tail(names))

ToolNames == UNION {Range(processor.tools) : processor \in Processors} \cup {"unknown_tool"}

\* C27: after any registrations, also of a processor under a name in use with
\* other tools, get_processor_for_tool(t) returns a processor exactly when t is
\* a tool of get_all_tools(), and the processor it returns is one of those
\* stored in processors.
C27_CatalogAndMapAgree ==
    \A t \in ToolNames :
        /\ (GetProcessorForTool(t) # NoProcessor) <=> (t \in Range(GetAllTools))
        /\ GetProcessorForTool(t) # NoProcessor =>
                GetProcessorForTool(t) \in Range(processors)

(***************************************************************************)
(* process_query: claims                                                   *)
(***************************************************************************)

Finished(p) == pass[p].pc = "done"

\* The account identifier in the arguments the processor was executed with.
AccountOf(p) == DictGet(pass[p].tool_call.arguments, "account_number", None)

\* The call appended exactly one interaction to its session.
AppendedOne(p) ==
    Len(appended[pass[p].session_id]) = pass[p].appended_before + 1

\* C2: when every registered provider reports unavailable, the selection returns
\* nothing without raising, the call returns status error, intent error and
\* confidence 0, takes none of the later steps, and leaves the history as it was.
C2_NoProviderAvailable ==
    \A p \in Passes :
        (pass[p].pc # "idle" /\ \A n \in providers : avail[n] = "down") =>
            /\ Finished(p)
            /\ ~pass[p].fault
            /\ pass[p].llm_provider = None
            /\ pass[p].returned.status = "error"
            /\ pass[p].returned.intent = "error"
            /\ pass[p].returned.confidence = 0
            /\ pass[p].context = NoContext
            /\ pass[p].selected = NoToolCall
            /\ pass[p].processor = NoProcessor
            /\ pass[p].response = NoResponse
            /\ History(pass[p].session_id) = pass[p].history_before
            /\ Len(appended[pass[p].session_id]) = pass[p].appended_before

\* A call on a session with history ended so, both providers reporting unavailable.
C2_Witness ==
    /\ Finished("p1")
    /\ avail["A"] = "down" /\ avail["B"] = "down"
    /\ pass["p1"].returned = NoProviderResponse
    /\ pass["p1"].history_before # <<>>
    /\ History(pass["p1"].session_id) = pass["p1"].history_before

WellFormedResponse(r) ==
    /\ DOMAIN r = {"message", "intent", "confidence", "status", "data"}
    /\ r.status \in Statuses

\* C3: a finished call has returned a Response, and when a step raised it is the
\* generic one: status error, intent error, confidence 0.
C3_NeverPropagates ==
    \A p \in Passes :
        Finished(p) =>
            /\ WellFormedResponse(pass[p].returned)
            /\ pass[p].fault =>
                    /\ pass[p].returned.status = "error"
                    /\ pass[p].returned.intent = "error"
                    /\ pass[p].returned.confidence = 0

\* The FAQ processor raised on a question that is not a str, and the call
\* returned the generic error.
C3_Witness ==
    /\ Finished("p1")
    /\ pass["p1"].fault
    /\ pass["p1"].processor.name = "faq"
    /\ pass["p1"].returned = GenericErrorResponse

\* C23: the Response every finished call returns, the no-provider and the
\* generic error Response included, carries the session id of the call.
C23_SessionIdAttached ==
    \A p \in Passes :
        Finished(p) =>
            /\ "session_id" \in DOMAIN pass[p].returned
            /\ pass[p].returned.session_id = pass[p].session_id

\* C4: when a provider was selected and the processor returned a Response, the
\* call appended exactly one interaction to its session: the query, the
\* Response's message and intent, and the account identifier of the arguments
\* (None without one); get_context then reports that intent and that account.
C4_InteractionRecorded ==
    \A p \in Passes :
        (Finished(p) /\ pass[p].response # NoResponse) =>
            LET history == History(pass[p].session_id)
                last == history[Len(history)]
                context == GetContext(pass[p].session_id)
            IN  /\ pass[p].llm_provider # None
                /\ pass[p].returned = pass[p].response
                /\ AppendedOne(p)
                /\ history # <<>>
                /\ last.query = pass[p].query
                /\ last.response = pass[p].response.message
                /\ last.intent = pass[p].response.intent
                /\ last.account_number = AccountOf(p)
                /\ context.last_intent = pass[p].response.intent
                /\ context.last_account = AccountOf(p)

\* A not_found Response for account 999 was recorded in a session that had
\* a full history before.
C4_Witness ==
    /\ Finished("p1")
    /\ pass["p1"].response.status = "not_found"
    /\ Len(pass["p1"].history_before) = max_history
    /\ GetContext(pass["p1"].session_id).last_account = "999"
    /\ GetContext(pass["p1"].session_id).last_intent = "eligibility_check"

\* C5: when the provider names a tool no processor has registered, the call goes
\* on with the general-inquiry processor, tool general_response and empty
\* arguments, raises nothing, and ends with that processor's Response recorded.
C5_UnknownToolFallback ==
    \A p \in Passes :
        (/\ pass[p].selected # NoToolCall
         /\ pass[p].selected.tool_name \notin DOMAIN tools_map
         /\ pass[p].pc # "get_processor") =>
            /\ pass[p].processor.name = "general_inquiry"
            /\ pass[p].tool_call = FallbackToolCall
            /\ ~pass[p].fault
            /\ Finished(p) =>
                    /\ pass[p].returned = pass[p].response
                    /\ pass[p].returned.status = "success"
                    /\ pass[p].returned.intent \in {"greeting", "general_inquiry"}
                    /\ AppendedOne(p)
                    /\ GetContext(pass[p].session_id).last_account = None

\* The provider chose summarize_account for account 503446; the call ended with
\* a general-inquiry answer.
C5_Witness ==
    /\ Finished("p1")
    /\ pass["p1"].selected = ToolCall("summarize_account", [account_number |-> "503446"])
    /\ pass["p1"].processor = NewGeneralInquiryProcessor
    /\ pass["p1"].returned.intent = "general_inquiry"
    /\ pass["p1"].returned.message = "An answer."

\* The confidence the processor of the call returns when generate succeeds.
ConfidenceOnSuccess(p) ==
    ProcessorExecute(pass[p].processor, pass[p].tool_call.tool_name,
                     pass[p].tool_call.arguments, pass[p].context, " An answer. ").confidence

\* C18: when the generate call of the FAQ or of the general-inquiry processor
\* fails, the processor returns a Response with its canned text and a confidence
\* below the one it returns when generate succeeds; nothing is raised, so the
\* call appends the interaction and returns that Response.
C18_GenerationFailureAbsorbed ==
    \A p \in Passes :
        pass[p].generated = GenerationError =>
            /\ ~pass[p].fault
            /\ pass[p].response.message \in {FaqCannedAnswer, GeneralCannedAnswer}
            /\ pass[p].response.confidence < ConfidenceOnSuccess(p)
            /\ Finished(p) =>
                    /\ pass[p].returned = pass[p].response
                    /\ AppendedOne(p)

\* C9: every Response a processor returned has its status and its intent set,
\* and a message that is not empty when the status is success.
C9_ResponseComplete ==
    \A p \in Passes :
        pass[p].response # NoResponse =>
            /\ pass[p].response.status \in Statuses
            /\ pass[p].response.intent \notin {None, ""}
            /\ pass[p].response.status = "success" => pass[p].response.message # ""

\* C7: once every call has finished, each session's history has
\* min(h + k, max_history) interactions, h the length before and k the number of
\* updates, as if the updates had run one after the other.
C7_SerializedUpdates ==
    (\A p \in Passes : pass[p].pc \in {"idle", "done"}) =>
        \A s \in SessionIds :
            Len(History(s)) = Min(Len(appended[s]), max_history)

\* C26: whatever the interleaving of the update_context and get_context calls
\* on a session, no get_context call returns a history of more than max_history
\* interactions; history_length is the length of the history at the return.
C26_BoundedForReaders ==
    \A p \in Passes :
        "history_length" \in DOMAIN pass[p].context =>
            pass[p].context.history_length <= max_history

\* C28: the history in a context get_context returned stays as it was at the
\* return: no later update_context on the session, of the call that holds the
\* context or of another call, changes the history read from it.
C28_ContextIsSnapshot ==
    [][\A p \in Passes :
          ("history" \in DOMAIN pass[p].context /\ pass'[p].context = pass[p].context) =>
              ListOf(pass[p].context.history)' = ListOf(pass[p].context.history)]_vars

\* C29: a call that ends with the generic error Response because a step after
\* the provider selection raised (the tool selection, the lookup of the
\* processor, its execution, or the read of the account number from arguments
\* that are no mapping) appended no interaction: the history of its session is
\* the one the call began with.
C29_FaultAppendsNothing ==
    \A p \in Passes :
        (Finished(p) /\ pass[p].fault) =>
            /\ pass[p].returned = GenericErrorResponse
            /\ History(pass[p].session_id) = pass[p].history_before
            /\ Len(appended[pass[p].session_id]) = pass[p].appended_before
            /\ (pass[p].session_id \in DOMAIN sessions) = (pass[p].history_before # <<>>)

\* The general-inquiry processor answered, then the read of the account number
\* from arguments that are a text raised: the session keeps its one interaction.
C29_Witness ==
    /\ Finished("p1") /\ pass["p1"].fault
    /\ pass["p1"].tool_call = ToolCall("general_response", NotAMapping)
    /\ pass["p1"].response.status = "success"
    /\ pass["p1"].returned = GenericErrorResponse
    /\ Len(pass["p1"].history_before) = 1
    /\ History(pass["p1"].session_id) = pass["p1"].history_before

\* C8: a step of a call, whether the call goes on to succeed or to fail, changes
\* the history of no session but its own, and changes neither the registered
\* providers, the default, the fallback order, nor the registry of processors.
C8_Isolation ==
    [][\A p \in Passes :
          pass'[p] # pass[p] =>
              /\ \A s \in SessionIds \ {pass'[p].session_id} :
                      /\ History(s)' = History(s)
                      /\ (s \in DOMAIN sessions') = (s \in DOMAIN sessions)
              /\ UNCHANGED <<providers, default_provider_name, fallback_order,
                             processors, tools_map>>]_vars

\* A call on s1 failed and a call on s2 succeeded, side by side: s2 has its one
\* interaction, and s1, with one interaction before, still has just that one.
C8_Witness ==
    /\ Finished("p1") /\ pass["p1"].fault /\ pass["p1"].session_id = "s1"
    /\ Finished("p2") /\ ~pass["p2"].fault /\ pass["p2"].session_id = "s2"
    /\ pass["p2"].returned.status = "success"
    /\ Len(pass["p1"].history_before) = 1
    /\ History("s1") = pass["p1"].history_before
    /\ Len(History("s2")) = 1

(***************************************************************************)
(* The specifications: one per component, each from the component's state  *)
(* after construction, the other components idle.                          *)
(***************************************************************************)

\* The lending data before any call of these specifications: no rows.
InitEngIdle ==
    /\ customer_record = <<>>
    /\ evaluated = <<>>

InitEligIdle ==
    /\ warehouse = <<>>
    /\ reasons = <<>>
    /\ elig = NoEligCall
    /\ InitEngIdle

\* The registry and the orchestrator before any registration and any query.
InitPipeIdle ==
    /\ processors = <<>>
    /\ tools_map = NoTools
    /\ registrations = <<>>
    /\ all_tools = NoCatalog
    /\ pass = [p \in Passes |-> IdlePass]

\* The context manager before any call, with nothing configured.
InitCtxIdle ==
    /\ max_history = 1
    /\ sessions = NoSessions
    /\ clock = 0
    /\ appended = [s \in SessionIds |-> <<>>]
    /\ last_context = NoContext

InitElig ==
    /\ warehouse \in SubSequences(WarehouseAccounts)
    /\ reasons \in SubSequences(ReasonsRows)
    /\ elig = NoEligCall
    /\ InitEngIdle
    /\ InitCtxIdle
    /\ providers = {} /\ default_provider_name = None /\ fallback_order = <<>>
    /\ avail = [n \in ProviderNames |-> "up"]
    /\ selection = NoSelection
    /\ tool_selection = NoToolSelection
    /\ selected = <<>>
    /\ order_call = NoOrderCall
    /\ InitPipeIdle

NextElig ==
    \E a \in ArgumentsOfEligibility : CallCheckEligibility(a)

SpecElig == InitElig /\ [][NextElig]_vars

\* The Gemini provider asked to select a tool, again and again.
InitGemini ==
    /\ InitPipeIdle
    /\ InitEligIdle
    /\ InitCtxIdle
    /\ providers = {} /\ default_provider_name = None /\ fallback_order = <<>>
    /\ avail = [n \in ProviderNames |-> "up"]
    /\ selection = NoSelection
    /\ tool_selection = NoToolSelection
    /\ selected = <<>>
    /\ order_call = NoOrderCall

NextGemini ==
    \E available_tools \in ToolLists, reply \in Replies :
        CallGenerateWithTools(available_tools, reply)

SpecGemini == InitGemini /\ [][NextGemini]_vars

\* The registry from its construction on, under registrations and lookups.
InitRegistry ==
    /\ InitPipeIdle
    /\ InitEligIdle
    /\ InitCtxIdle
    /\ providers = {} /\ default_provider_name = None /\ fallback_order = <<>>
    /\ avail = [n \in ProviderNames |-> "up"]
    /\ selection = NoSelection
    /\ tool_selection = NoToolSelection
    /\ selected = <<>>
    /\ order_call = NoOrderCall

NextRegistry ==
    \/ \E processor \in Processors : RegisterProcessor(processor)
    \/ CallGetAllTools

SpecRegistry == InitRegistry /\ [][NextRegistry]_vars

\* The engine given a record, and evaluating it again and again.
InitEngine ==
    /\ customer_record \in CustomerRecords
    /\ evaluated = <<>>
    /\ warehouse = <<>> /\ reasons = <<>> /\ elig = NoEligCall
    /\ InitCtxIdle
    /\ providers = {} /\ default_provider_name = None /\ fallback_order = <<>>
    /\ avail = [n \in ProviderNames |-> "up"]
    /\ selection = NoSelection
    /\ tool_selection = NoToolSelection
    /\ selected = <<>>
    /\ order_call = NoOrderCall
    /\ InitPipeIdle

NextEngine == Evaluate

SpecEngine == InitEngine /\ [][NextEngine]_vars

InitCtx ==
    /\ max_history \in 1..MaxHistoryBound
    /\ sessions = NoSessions
    /\ clock = 0
    /\ appended = [s \in SessionIds |-> <<>>]
    /\ last_context = NoContext
    /\ providers = {} /\ default_provider_name = None /\ fallback_order = <<>>
    /\ avail = [n \in ProviderNames |-> "up"]
    /\ selection = NoSelection
    /\ tool_selection = NoToolSelection
    /\ selected = <<>>
    /\ order_call = NoOrderCall
    /\ InitEligIdle
    /\ InitPipeIdle

NextCtx ==
    \/ \E s \in SessionIds, c \in CtxCalls :
            UpdateContext(s, c.query, c.response, c.response.intent, c.account_number)
    \/ \E s \in SessionIds : CallGetContext(s)

SpecCtx == InitCtx /\ [][NextCtx]_vars

InitSelect ==
    /\ providers = {}
    /\ default_provider_name = None
    /\ fallback_order = <<>>
    /\ avail \in [ProviderNames -> Reports]
    /\ selection = NoSelection
    /\ tool_selection = NoToolSelection
    /\ selected = <<>>
    /\ order_call = NoOrderCall
    /\ InitCtxIdle
    /\ InitEligIdle
    /\ InitPipeIdle

NextSelect ==
    \/ \E n \in ProviderNames : RegisterProvider(n)
    \/ \E n \in ProviderNames : SetDefaultProvider(n)
    \/ \E o \in SeqsUpTo(ProviderNames, MaxFallback) : SetFallbackOrder(o)
    \/ \E n \in ProviderNames, r \in Reports : SetAvail(n, r)
    \/ \E pref \in ProviderNames \cup {None} : Select(pref)

SpecSelect == InitSelect /\ [][NextSelect]_vars

\* The orders set during a run of selections; C is registered late or never.
RunOrders == {<<"C", "B">>, <<"B", "A">>, <<"A", "A">>, <<>>}

\* A run of selections on a manager with no default provider: the order is set
\* before the first selection; providers are registered and backends come up and
\* go down at any time.
InitRun == InitSelect

NextRun ==
    \/ \E n \in ProviderNames : RegisterProvider(n)
    \/ \E o \in RunOrders : SetFallbackOrderInRun(o)
    \/ \E n \in ProviderNames, r \in Reports : SetAvail(n, r)
    \/ \E pref \in ProviderNames \cup {None} : SelectInRun(pref)

SpecRun == InitRun /\ [][NextRun]_vars

\* An earlier query of the session, run to its end before the calls observed.
Seed(s, c) ==
    /\ \A p \in Passes : pass[p].pc = "idle"
    /\ clock < MaxSeeds
    /\ UpdateContext(s, c.query, c.response, c.response.intent, c.account_number)

SeedCalls == {c \in CtxCalls : c.account_number # None}

\* The application as create_app leaves it: two providers registered, A the
\* default and B the fallback, all processors registered, both datasets loaded.
InitPipe ==
    /\ providers = {"A", "B"}
    /\ default_provider_name = "A"
    /\ fallback_order = <<"B">>
    /\ avail \in {f \in [ProviderNames -> Reports \cup {"raise"}] : f["C"] = "up"}
    /\ selection = NoSelection
    /\ tool_selection = NoToolSelection
    /\ selected = <<>>
    /\ order_call = NoOrderCall
    /\ max_history \in 1..MaxHistoryBound
    /\ sessions = NoSessions
    /\ clock = 0
    /\ appended = [s \in SessionIds |-> <<>>]
    /\ last_context = NoContext
    /\ warehouse = WarehouseAccounts
    /\ reasons = ReasonsRows
    /\ elig = NoEligCall
    /\ InitEngIdle
    /\ processors = WiredProcessors
    /\ tools_map = WiredTools
    /\ registrations = <<DigitalLendingProcessor, FAQProcessor, GeneralInquiryProcessor>>
    /\ all_tools = NoCatalog
    /\ pass = [p \in Passes |-> IdlePass]

\* One call of process_query at a time.
NextPipe ==
    \/ \E s \in SessionIds, c \in SeedCalls : Seed(s, c)
    \/ \E q \in Queries, s \in SessionIds, m \in {None, "B"} : Begin("p1", q, s, m)
    \/ LoadContext("p1")
    \/ \E o \in ToolSelections : SelectTool("p1", o)
    \/ GetProcessor("p1")
    \/ \E g \in GenerateOutcomes : Execute("p1", g)
    \/ AppendInteraction("p1")
    \/ CheckLimit("p1")
    \/ PopOldest("p1")

SpecPipe == InitPipe /\ [][NextPipe]_vars

\* Calls with a provider that also returns tool calls whose arguments are no
\* mapping or whose tool name is no text, beside some that go through.
FaultySelections ==
    MalformedToolCalls
    \cup {ToolSelectionError, DefaultToolCall,
          ToolCall("answer_faq", [question |-> NotAString]),
          ToolCall("check_eligibility", [account_number |-> "503446"])}

InitPipeFaults == InitPipe

NextPipeFaults ==
    \/ \E s \in SessionIds, c \in SeedCalls : Seed(s, c)
    \/ \E q \in Queries, s \in SessionIds : Begin("p1", q, s, None)
    \/ LoadContext("p1")
    \/ \E o \in FaultySelections : SelectTool("p1", o)
    \/ GetProcessor("p1")
    \/ \E g \in GenerateOutcomes : Execute("p1", g)
    \/ AppendInteraction("p1")
    \/ CheckLimit("p1")
    \/ PopOldest("p1")

SpecPipeFaults == InitPipeFaults /\ [][NextPipeFaults]_vars

\* Calls of process_query side by side, as the threads of the server run them.
InitPipeConc ==
    /\ InitPipe
    /\ \A n \in ProviderNames : avail[n] = "up"

NextPipeConc ==
    \/ \E s \in SessionIds, c \in SeedCalls : Seed(s, c)
    \/ \E p \in Passes, s \in SessionIds : Begin(p, "Hi", s, None)
    \/ \E p \in Passes : LoadContext(p)
    \/ \E p \in Passes, o \in {ToolCall("general_response", <<>>), ToolSelectionError} :
            SelectTool(p, o)
    \/ \E p \in Passes : GetProcessor(p)
    \/ \E p \in Passes : Execute(p, GenerationError)
    \/ \E p \in Passes : AppendInteraction(p)
    \/ \E p \in Passes : CheckLimit(p)
    \/ \E p \in Passes : PopOldest(p)

SpecPipeConc == InitPipeConc /\ [][NextPipeConc]_vars

====
